---------------------------- MODULE Spec2Model ----------------------------
(***************************************************************************)
(* Model of the document/KYC processing pipeline:                          *)
(*   src/agents/agents.py  EnhancedMetadataExtractorTool, the PDF          *)
(*                         backends, categorize_files_by_type,             *)
(*                         get_image_metadata                              *)
(*   src/main.py           process_files, save_results, main               *)
(*                                                                         *)
(* Python strings are sequences of one-character strings, so that          *)
(* slicing, strip(), split(), lower() and splitext() are computed and not  *)
(* assumed.  Python dicts are TLA+ records (functions on field names);     *)
(* a key is present iff it is in the DOMAIN.                               *)
(***************************************************************************)
EXTENDS Integers, Sequences, FiniteSets, TLC

VARIABLES
    pc,                 \* position of main / process_files
    file_paths,         \* args.files, the list given to process_files
    disk,               \* the paths that exist (os.path.exists)
    categorized_files,  \* main.py:30
    collected_docs,     \* main.py:34
    pos,                \* how many entries of file_paths the loop of main.py:36 has taken
    doc_input,          \* main.py:86, what kickoff was given
    document_results,   \* main.py:50
    vision_results,     \* main.py:98
    final_package,      \* main.py:109, the value process_files returns
    exit_code,          \* the exit status of the process
    saved,              \* what save_results received
    effects,            \* per-run log of the calls made, in order
    em                  \* one call of extract_metadata / categorize / excerpt under test

vars == << pc, file_paths, disk, categorized_files, collected_docs, pos,
           doc_input, document_results, vision_results, final_package, exit_code,
           saved, effects, em >>

\* ------------------------------------------------------------ bounds
MaxFiles == 2
MaxPages == 2
MaxTextLen == 1
MaxImages == 1
ProbeSpan == 2

\* --------------------------------------------------- Python strings
\* Python values that a variable may hold in turn carry their type
PyNone == [ type |-> "NoneType" ]
PyStr(v) == [ type |-> "str", value |-> v ]

\* An exception leaving a function is a value of its own; e is str(exception)
Raise(e) == [ raised |-> e ]
IsRaise(v) == "raised" \in DOMAIN v

Min(a, b) == IF a < b THEN a ELSE b

\* s[:n]
Take(s, n) == SubSeq(s, 1, Min(n, Len(s)))

\* the characters str.strip() and str.split() treat as whitespace
Whitespace == {" ", "\n", "\t"}

RECURSIVE LStrip(_)
LStrip(s) ==
    IF s = << >> THEN s
    ELSE IF Head(s) \in Whitespace THEN LStrip(Tail(s)) ELSE s

RECURSIVE RStrip(_)
RStrip(s) ==
    IF s = << >> THEN s
    ELSE IF s[Len(s)] \in Whitespace THEN RStrip(SubSeq(s, 1, Len(s) - 1)) ELSE s

\* str.strip()
Strip(s) == RStrip(LStrip(s))

\* len(s.split()): the number of maximal runs of non-whitespace characters
SplitCount(s) ==
    Cardinality({ i \in 1..Len(s) :
                    /\ s[i] \notin Whitespace
                    /\ (i = 1 \/ s[i - 1] \in Whitespace) })

UpperAlpha == << "A", "B", "C", "D", "E", "F", "G", "H", "I", "J", "K", "L", "M",
                 "N", "O", "P", "Q", "R", "S", "T", "U", "V", "W", "X", "Y", "Z" >>
LowerAlpha == << "a", "b", "c", "d", "e", "f", "g", "h", "i", "j", "k", "l", "m",
                 "n", "o", "p", "q", "r", "s", "t", "u", "v", "w", "x", "y", "z" >>

LowerChar(c) ==
    IF \E i \in 1..26 : UpperAlpha[i] = c
    THEN LowerAlpha[CHOOSE i \in 1..26 : UpperAlpha[i] = c]
    ELSE c

\* str.lower()
Lower(s) == [ i \in 1..Len(s) |-> LowerChar(s[i]) ]

\* str.rfind(c), 1-based, 0 when absent
RFind(s, c) ==
    IF \E i \in 1..Len(s) : s[i] = c
    THEN CHOOSE i \in 1..Len(s) : s[i] = c /\ \A j \in (i + 1)..Len(s) : s[j] # c
    ELSE 0

\* os.path.splitext(p)[1]: from the last dot of the last component, unless
\* that component consists of leading dots only up to it
SplitExt(p) ==
    LET sep == RFind(p, "/")
        dot == RFind(p, ".")
    IN  IF dot > sep /\ \E k \in (sep + 1)..(dot - 1) : p[k] # "."
        THEN SubSeq(p, dot, Len(p))
        ELSE << >>

\* os.path.basename(p)
Basename(p) == SubSeq(p, RFind(p, "/") + 1, Len(p))

\* x in list
InList(x, l) == \E i \in 1..Len(l) : l[i] = x

\* dict.update: b's keys win
Merge(a, b) ==
    [ k \in DOMAIN a \cup DOMAIN b |-> IF k \in DOMAIN b THEN b[k] ELSE a[k] ]

\* ------------------------------------------------ categorize_files_by_type
image_extensions ==
    << << ".", "j", "p", "g" >>, << ".", "j", "p", "e", "g" >>,
       << ".", "p", "n", "g" >>, << ".", "g", "i", "f" >>,
       << ".", "b", "m", "p" >>, << ".", "t", "i", "f", "f" >> >>

document_extensions ==
    << << ".", "p", "d", "f" >>, << ".", "d", "o", "c" >>,
       << ".", "d", "o", "c", "x" >>, << ".", "t", "x", "t" >>,
       << ".", "x", "l", "s", "x" >>, << ".", "x", "l", "s" >>,
       << ".", "p", "p", "t", "x" >> >>

\* CategoryOf comparing the extension as written, without lower()
CategoryOf_CaseSensitive(file_path) ==
    LET ext == SplitExt(file_path)
    IN  IF InList(ext, image_extensions) THEN "images"
        ELSE IF InList(ext, document_extensions) THEN "documents"
        ELSE "other"

\* the branch of the if/elif/else one path takes
CategoryOf(file_path) ==
    LET ext == Lower(SplitExt(file_path))
    IN  IF InList(ext, image_extensions) THEN "images"
        ELSE IF InList(ext, document_extensions) THEN "documents"
        ELSE "other"

RECURSIVE categorize_files_by_type(_)
categorize_files_by_type(paths) ==
    IF paths = << >>
    THEN [ images |-> << >>, documents |-> << >>, other |-> << >> ]
    ELSE LET n    == Len(paths)
             rest == categorize_files_by_type(SubSeq(paths, 1, n - 1))
             c    == CategoryOf(paths[n])
         IN  [ rest EXCEPT ![c] = Append(@, paths[n]) ]


\* --------------------------------------------------------------- excerpt
ExcerptLimit == 2000
ContinuationMarker == << ".", ".", "." >>

\* Excerpt cutting already at the limit (>= for >)
Excerpt_OffByOne(text) ==
    IF Len(text) >= ExcerptLimit
    THEN Take(text, ExcerptLimit) \o ContinuationMarker
    ELSE text

\* text[:2000] + "..." if len(text) > 2000 else text
Excerpt(text) ==
    IF Len(text) > ExcerptLimit
    THEN Take(text, ExcerptLimit) \o ContinuationMarker
    ELSE text

\* -------------------------------------------------- PDF content extraction
\* A PDF on disk is a sequence of pages [text, images]: what page.get_text()
\* returns and how many entries page.get_images() lists.

\* PrimaryLoop putting the newline between pages only, as "\n".join would
RECURSIVE PrimaryLoop_Join(_, _)
PrimaryLoop_Join(doc, k) ==
    IF k = 0
    THEN [ full_text |-> << >>, total_images |-> 0, page_details |-> << >> ]
    ELSE LET prev      == PrimaryLoop_Join(doc, k - 1)
             page_text == doc[k].text
             page_images == doc[k].images
         IN  [ full_text    |-> prev.full_text
                                 \o (IF k > 1 THEN << "\n" >> ELSE << >>) \o page_text,
               total_images |-> prev.total_images + page_images,
               page_details |-> Append(prev.page_details,
                   [ page_number |-> (k - 1) + 1,
                     text_length |-> Len(page_text),
                     has_text    |-> Len(Strip(page_text)) > 0,
                     image_count |-> page_images ]) ]

\* the loop of the primary backend after the first k pages
RECURSIVE PrimaryLoop(_, _)
PrimaryLoop(doc, k) ==
    IF k = 0
    THEN [ full_text |-> << >>, total_images |-> 0, page_details |-> << >> ]
    ELSE LET prev      == PrimaryLoop(doc, k - 1)
             page_text == doc[k].text
             page_images == doc[k].images
         IN  [ full_text    |-> prev.full_text \o page_text \o << "\n" >>,
               total_images |-> prev.total_images + page_images,
               page_details |-> Append(prev.page_details,
                   [ page_number |-> (k - 1) + 1,
                     text_length |-> Len(page_text),
                     has_text    |-> Len(Strip(page_text)) > 0,
                     image_count |-> page_images ]) ]

\* PrimaryAnalysis testing the text without strip()
PrimaryAnalysis_NoStrip(doc) ==
    LET acc == PrimaryLoop(doc, Len(doc))
    IN  [ pdf_analysis |->
            [ total_pages       |-> Len(doc),
              has_text          |-> Len(acc.full_text) > 0,
              has_images        |-> acc.total_images > 0,
              text_content      |-> Excerpt(acc.full_text),
              page_details      |-> acc.page_details,
              extraction_method |-> "PyMuPDF",
              total_images      |-> acc.total_images,
              character_count   |-> Len(acc.full_text),
              word_count        |-> SplitCount(acc.full_text) ] ]

\* the value the primary backend returns when nothing raises
PrimaryAnalysis(doc) ==
    LET acc == PrimaryLoop(doc, Len(doc))
    IN  [ pdf_analysis |->
            [ total_pages       |-> Len(doc),
              has_text          |-> Len(Strip(acc.full_text)) > 0,
              has_images        |-> acc.total_images > 0,
              text_content      |-> Excerpt(acc.full_text),
              page_details      |-> acc.page_details,
              extraction_method |-> "PyMuPDF",
              total_images      |-> acc.total_images,
              character_count   |-> Len(acc.full_text),
              word_count        |-> SplitCount(acc.full_text) ] ]

\* the loop of the fallback backend: a page whose extract_text raises is skipped
RECURSIVE FallbackLoop(_, _, _)
FallbackLoop(doc, pageOk, k) ==
    IF k = 0 THEN << >>
    ELSE IF pageOk[k]
         THEN FallbackLoop(doc, pageOk, k - 1) \o doc[k].text \o << "\n" >>
         ELSE FallbackLoop(doc, pageOk, k - 1)

\* the value _extract_pdf_content_fallback returns when open/PdfReader succeed
FallbackAnalysis(doc, pageOk) ==
    LET full_text == FallbackLoop(doc, pageOk, Len(doc))
    IN  [ pdf_analysis |->
            [ total_pages       |-> Len(doc),
              extraction_method |-> "PyPDF2_fallback",
              text_content      |-> Excerpt(full_text),
              has_text          |-> Len(Strip(full_text)) > 0,
              character_count   |-> Len(full_text),
              word_count        |-> SplitCount(full_text) ] ]

\* the record returned when both backends raised
FailedAnalysis(e, e2) ==
    [ pdf_analysis |->
        [ error |-> << "PDF extraction failed: ", e, " | Fallback error: ", e2 >>,
          extraction_method |-> "failed" ] ]

\* An outcome o of one extract_metadata call names what the environment did:
\*   attrs    "ok" | "raise"   os.stat or a timestamp conversion raising
\*   primary  "ok" | "raise"   any exception inside the try of lines 73-119
\*   fallback "ok" | "raise"   open / PdfReader / len(pages) raising
\*   pageOk   per page, whether extract_text returned text
\*   e, e2    str() of the exceptions (either may be the empty string)

\* lines 74-119: the primary backend
PrimaryBackend(doc, o) ==
    IF o.primary = "raise" THEN Raise(o.e) ELSE PrimaryAnalysis(doc)

_extract_pdf_content_fallback(doc, o) ==
    IF o.fallback = "raise" THEN Raise(o.e2) ELSE FallbackAnalysis(doc, o.pageOk)

\* _extract_pdf_content without the try around the fallback call
_extract_pdf_content_NoInnerTry(doc, o) ==
    LET r == PrimaryBackend(doc, o)
    IN  IF ~IsRaise(r) THEN r ELSE _extract_pdf_content_fallback(doc, o)

\* lines 71-131: the primary backend, on any exception the fallback, and
\* when that raises too the failed record
_extract_pdf_content(doc, o) ==
    LET r == PrimaryBackend(doc, o)
    IN  IF ~IsRaise(r) THEN r
        ELSE LET r2 == _extract_pdf_content_fallback(doc, o)
             IN  IF IsRaise(r2) THEN FailedAnalysis(r.raised, r2.raised) ELSE r2

\* which backends one run of _extract_pdf_content invokes, in order
BackendCalls(o) ==
    IF o.primary = "ok" THEN << "primary" >> ELSE << "primary", "fallback" >>

\* ------------------------------------------------------- extract_metadata
_determine_file_type(extension) ==
    LET x == Lower(extension)
    IN  CASE x = << ".", "p", "d", "f" >>      -> "PDF Document"
          [] x = << ".", "d", "o", "c" >>      -> "Word Document"
          [] x = << ".", "d", "o", "c", "x" >> -> "Word Document"
          [] x = << ".", "t", "x", "t" >>      -> "Text File"
          [] x = << ".", "x", "l", "s", "x" >> -> "Excel Spreadsheet"
          [] x = << ".", "x", "l", "s" >>      -> "Excel Spreadsheet"
          [] x = << ".", "p", "p", "t", "x" >> -> "PowerPoint Presentation"
          [] x = << ".", "j", "p", "g" >>      -> "Image"
          [] x = << ".", "j", "p", "e", "g" >> -> "Image"
          [] x = << ".", "p", "n", "g" >>      -> "Image"
          [] x = << ".", "g", "i", "f" >>      -> "Image"
          [] x = << ".", "b", "m", "p" >>      -> "Image"
          [] x = << ".", "t", "i", "f", "f" >> -> "Image"
          [] OTHER                             -> "Unknown"

\* os.stat of an existing file: the attributes the record is built from
DiskStat(file_path) ==
    [ st_size |-> 100 * Len(file_path), st_ctime |-> Len(file_path), st_mtime |-> Len(file_path) + 1 ]

\* datetime.fromtimestamp(t).isoformat()
IsoFormat(t) == << "iso", t >>

IsPdf(file_path) == Lower(SplitExt(Basename(file_path))) = << ".", "p", "d", "f" >>

\* lines 29-48, the body of the try
ExtractBody(file_path, doc, o) ==
    IF o.attrs = "raise" THEN Raise(o.e)
    ELSE LET file_stats     == DiskStat(file_path)
             file_name      == Basename(file_path)
             file_extension == SplitExt(file_name)
             base_metadata  ==
                 [ file_name      |-> file_name,
                   file_path      |-> file_path,
                   file_size      |-> file_stats.st_size,
                   file_extension |-> file_extension,
                   created_date   |-> IsoFormat(file_stats.st_ctime),
                   modified_date  |-> IsoFormat(file_stats.st_mtime),
                   file_type      |-> _determine_file_type(file_extension) ]
         IN  IF Lower(file_extension) = << ".", "p", "d", "f" >>
             THEN LET pdf_content == _extract_pdf_content(doc, o)
                  IN  IF IsRaise(pdf_content) THEN pdf_content
                      ELSE Merge(base_metadata, pdf_content)
             ELSE base_metadata

\* lines 28-50: whatever the body raises becomes the error record
extract_metadata(file_path, doc, o) ==
    LET r == ExtractBody(file_path, doc, o)
    IN  IF IsRaise(r)
        THEN [ error |-> << "Failed to extract metadata: ", r.raised >> ]
        ELSE r

\* the backends one call of extract_metadata invokes
ExtractCalls(file_path, o) ==
    IF o.attrs = "ok" /\ IsPdf(file_path) THEN BackendCalls(o) ELSE << >>

\* get_image_metadata: the attributes, or the error record when Image.open raises
get_image_metadata(image_path, imageOk) ==
    IF imageOk
    THEN [ dimensions |-> "WxH", format |-> "PNG", mode |-> "RGB",
           has_transparency |-> FALSE ]
    ELSE [ error |-> "Could not read image metadata" ]


\* ------------------------------------------------------------ the disk
\* The files the pipeline is run on.
P_pdf   == << "r", ".", "P", "D", "F" >>
P_txt   == << "n", ".", "t", "x", "t" >>
P_png   == << "i", ".", "p", "n", "g" >>
P_other == << "x", ".", "d", "a", "t" >>

MainPaths == { P_pdf, P_txt, P_png, P_other }

\* the pages of a PDF file on disk
DiskPdf(file_path) ==
    IF file_path = P_pdf
    THEN << [ text |-> << "a", " " >>, images |-> 1 ], [ text |-> << >>, images |-> 0 ] >>
    ELSE << >>

\* f.read() of a file opened as utf-8 text
DiskText(file_path) ==
    IF file_path = P_txt THEN << "a", " ", "a", "\n" >> ELSE << "%" >>

\* str() of the exceptions the model raises
ExcTexts == { "", "boom" }

\* the outcomes of one extract_metadata call on file_path, each named once:
\* what was never run is left at "ok", and a text nobody reads at ""
Outcome(attrs, primary, fallback, pageOk, e, e2) ==
    [ attrs |-> attrs, primary |-> primary, fallback |-> fallback,
      pageOk |-> pageOk, e |-> e, e2 |-> e2 ]

Outcomes(file_path, doc) ==
    LET allPages == [ k \in 1..Len(doc) |-> TRUE ]
    IN  { Outcome("raise", "ok", "ok", allPages, e, "") : e \in ExcTexts }
        \cup { Outcome("ok", "ok", "ok", allPages, "", "") }
        \cup ( IF IsPdf(file_path)
               THEN { Outcome("ok", "raise", "ok", pageOk, "", "") :
                        pageOk \in [ 1..Len(doc) -> BOOLEAN ] }
                    \cup { Outcome("ok", "raise", "raise", allPages, e, e2) :
                             e \in ExcTexts, e2 \in ExcTexts }
               ELSE {} )

\* ----------------------------------------------------------- process_files
NoDocuments == "No documents processed"
NoImages == "No images processed"
DocPlaceholder == "Document processing completed with basic metadata only"
VisionPlaceholder == "Image processing completed with basic metadata extraction only"
DocAgentLabel == "Document Processing Agent"
ImageAgentLabel == "Basic Image Processing"

\* what document_processing_crew.kickoff returns: a CrewOutput object
CrewOutput == [ type |-> "CrewOutput", raw |-> "analysis" ]

\* KickoffResult leaving document_results unset when kickoff raises
KickoffResult_NoPlaceholder(kickoff) ==
    IF kickoff = "return" THEN CrewOutput ELSE PyNone

\* lines 91-95: what document_results becomes
KickoffResult(kickoff) ==
    IF kickoff = "return" THEN CrewOutput ELSE PyStr(DocPlaceholder)

\* bool(x) of the values document_results and vision_results take: None and
\* the empty string are false, any other string and a CrewOutput are true
Truthy(x) == x.type # "NoneType" /\ ~(x.type = "str" /\ x.value = "")

\* str(x) of those values
Str(x) ==
    IF x.type = "NoneType" THEN "None"
    ELSE IF x.type = "CrewOutput" THEN x.raw ELSE x.value

\* lines 58-83: the entry of document_contents for one collected record;
\* file_content is what f.read() returns, readOk whether open/read succeeded
DocContent(doc, file_content, readOk, e) ==
    LET head == [ file_name |-> doc.file_name, file_path |-> doc.file_path,
                  file_type |-> doc.file_type ]
    IN  IF "pdf_analysis" \in DOMAIN doc /\ "text_content" \in DOMAIN doc.pdf_analysis
        THEN Merge(head, [ text_content |-> doc.pdf_analysis.text_content ])
        ELSE IF readOk
             THEN Merge(head, [ text_content |-> Excerpt(file_content) ])
             ELSE Merge(head, [ text_content |-> << "[Error reading file content: ", e, "]" >> ])

\* line 57: doc['file_path'] raises KeyError on a record without that key
RaisesKeyError(docs) == \E k \in 1..Len(docs) : "file_path" \notin DOMAIN docs[k]

\* lines 55-84 over the first k collected records (none of which raises)
RECURSIVE DocumentContents(_, _, _, _)
DocumentContents(docs, cats, readOk, k) ==
    IF k = 0 THEN << >>
    ELSE LET prev == DocumentContents(docs, cats, readOk, k - 1)
             doc  == docs[k]
         IN  IF InList(doc.file_path, cats.documents \o cats.other)
             THEN Append(prev, DocContent(doc, DiskText(doc.file_path), readOk[k], ""))
             ELSE prev

\* AgentsUsed counting the document agent only when kickoff returned
AgentsUsed_OnlyOnResult(document_res, vision_res) ==
    (IF document_res.type = "CrewOutput" THEN << DocAgentLabel >> ELSE << >>)
    \o (IF Truthy(vision_res) THEN << ImageAgentLabel >> ELSE << >>)

\* lines 123-131
AgentsUsed(document_res, vision_res) ==
    (IF Truthy(document_res) THEN << DocAgentLabel >> ELSE << >>)
    \o (IF Truthy(vision_res) THEN << ImageAgentLabel >> ELSE << >>)

\* lines 109-125
Package(paths, cats, docs, document_res, vision_res, t1, t2) ==
    [ package_id        |-> << "DUAL_AGENT_PACKAGE_", t1 >>,
      created_at        |-> IsoFormat(t2),
      processing_method |-> "dual_agent_system",
      total_files       |-> Len(paths),
      file_categories   |-> [ images    |-> Len(cats.images),
                              documents |-> Len(cats.documents),
                              other     |-> Len(cats.other) ],
      categorized_files |-> cats,
      file_metadata     |-> docs,
      document_processing_results |->
          IF Truthy(document_res) THEN Str(document_res) ELSE NoDocuments,
      vision_analysis_results |->
          IF Truthy(vision_res) THEN Str(vision_res) ELSE NoImages,
      agents_used       |-> AgentsUsed(document_res, vision_res),
      package_status    |-> "COMPLETED" ]


\* the read outcomes of lines 68-83 over the collected records: one per record
\* that is read (no text_content from a PDF backend)
ReadOutcomes(docs, cats) ==
    { r \in [ 1..Len(docs) -> BOOLEAN ] :
        \A k \in 1..Len(docs) :
            ( \/ ~InList(docs[k].file_path, cats.documents \o cats.other)
              \/ ( /\ "pdf_analysis" \in DOMAIN docs[k]
                   /\ "text_content" \in DOMAIN docs[k].pdf_analysis ) ) => r[k] }

\* readings of datetime.now()
Clock == { 1, 2 }

\* ------------------------------------------------------------------- main
Idle == [ phase |-> "idle" ]

Init ==
    /\ pc = "start"
    /\ file_paths \in UNION { [ 1..n -> MainPaths ] : n \in 1..MaxFiles }
    /\ \E missing \in SUBSET { file_paths[k] : k \in 1..Len(file_paths) } :
           disk = MainPaths \ missing
    /\ categorized_files = PyNone
    /\ collected_docs = << >>
    /\ pos = 0
    /\ doc_input = PyNone
    /\ document_results = PyNone
    /\ vision_results = PyNone
    /\ final_package = PyNone
    /\ exit_code = -1
    /\ saved = PyNone
    /\ effects = << >>
    /\ em = Idle

\* main, lines 153-157: validate the paths, exit(1) when one is missing
Validate ==
    /\ pc = "start"
    /\ LET invalid_files == SelectSeq(file_paths, LAMBDA f : f \notin disk)
       IN  IF invalid_files # << >>
           THEN pc' = "exited" /\ exit_code' = 1
           ELSE pc' = "process_files" /\ UNCHANGED exit_code
    /\ UNCHANGED << file_paths, disk, categorized_files, collected_docs, pos,
                    doc_input, document_results, vision_results, final_package,
                    saved, effects, em >>

\* process_files, lines 30-34
Categorize ==
    /\ pc = "process_files"
    /\ categorized_files' = categorize_files_by_type(file_paths)
    /\ collected_docs' = << >>
    /\ pos' = 0
    /\ effects' = Append(effects, "categorize_files_by_type")
    /\ pc' = "metadata"
    /\ UNCHANGED << file_paths, disk, doc_input, document_results, vision_results,
                    final_package, exit_code, saved, em >>

\* process_files, lines 36-47: one iteration of the metadata loop
ExtractFile ==
    /\ pc = "metadata"
    /\ pos < Len(file_paths)
    /\ LET file_path == file_paths[pos + 1]
           is_image  == InList(file_path, categorized_files.images)
       IN  IF file_path \in disk
           THEN \E o \in Outcomes(file_path, DiskPdf(file_path)) :
                \E imageOk \in (IF is_image THEN BOOLEAN ELSE { TRUE }) :
                   LET metadata == extract_metadata(file_path, DiskPdf(file_path), o)
                       record   ==
                           IF is_image
                           THEN Merge(metadata,
                                      [ image_metadata |->
                                          get_image_metadata(file_path, imageOk) ])
                           ELSE metadata
                   IN  /\ collected_docs' = Append(collected_docs, record)
                       /\ effects' = effects \o << "extract_metadata" >>
                                       \o ExtractCalls(file_path, o)
                                       \o (IF is_image THEN << "get_image_metadata" >>
                                           ELSE << >>)
           ELSE UNCHANGED << collected_docs, effects >>
    /\ pos' = pos + 1
    /\ UNCHANGED << pc, file_paths, disk, categorized_files, doc_input,
                    document_results, vision_results, final_package, exit_code,
                    saved, em >>

\* process_files, lines 49-95: the document stage.  The KeyError of line 57 is
\* caught nowhere: it leaves process_files and main, and the interpreter
\* exits with status 1.
DocumentStage ==
    /\ pc = "metadata"
    /\ pos = Len(file_paths)
    /\ IF categorized_files.documents # << >> \/ categorized_files.other # << >>
       THEN IF RaisesKeyError(collected_docs)
            THEN /\ pc' = "crashed"
                 /\ exit_code' = 1
                 /\ UNCHANGED << doc_input, document_results, effects >>
            ELSE \E readOk \in ReadOutcomes(collected_docs, categorized_files) :
                 \E kickoff \in { "return", "raise" } :
                    /\ doc_input' =
                         [ documents |-> DocumentContents(collected_docs,
                               categorized_files, readOk, Len(collected_docs)),
                           instructions |->
                               "Process document files and create normalized metadata package" ]
                    /\ effects' = effects \o << "kickoff" >>
                                    \o (IF kickoff = "raise" THEN << "kickoff raised" >>
                                        ELSE << >>)
                    /\ document_results' = KickoffResult(kickoff)
                    /\ pc' = "images"
                    /\ UNCHANGED exit_code
       ELSE /\ pc' = "images"
            /\ UNCHANGED << doc_input, document_results, effects, exit_code >>
    /\ UNCHANGED << file_paths, disk, categorized_files, collected_docs, pos,
                    vision_results, final_package, saved, em >>

\* process_files, lines 97-104
ImageStage ==
    /\ pc = "images"
    /\ vision_results' =
         IF categorized_files.images # << >> THEN PyStr(VisionPlaceholder) ELSE PyNone
    /\ pc' = "compile"
    /\ UNCHANGED << file_paths, disk, categorized_files, collected_docs, pos,
                    doc_input, document_results, final_package, exit_code, saved,
                    effects, em >>

\* process_files, lines 106-135: build the package and return it
Compile ==
    /\ pc = "compile"
    /\ \E t1 \in Clock : \E t2 \in { t \in Clock : t >= t1 } :
          final_package' = Package(file_paths, categorized_files, collected_docs,
                                   document_results, vision_results, t1, t2)
    /\ pc' = "returned"
    /\ UNCHANGED << file_paths, disk, categorized_files, collected_docs, pos,
                    doc_input, document_results, vision_results, exit_code, saved,
                    effects, em >>

\* main, lines 164-191, and save_results: a failed write is printed, not raised
SaveResults ==
    /\ pc = "returned"
    /\ \E writeOk \in BOOLEAN :
          saved' = [ result |-> final_package, written |-> writeOk ]
    /\ effects' = Append(effects, "save_results")
    /\ exit_code' = 0
    /\ pc' = "done"
    /\ UNCHANGED << file_paths, disk, categorized_files, collected_docs, pos,
                    doc_input, document_results, vision_results, final_package, em >>

Next ==
    \/ Validate
    \/ Categorize
    \/ ExtractFile
    \/ DocumentStage
    \/ ImageStage
    \/ Compile
    \/ SaveResults

Spec == Init /\ [][Next]_vars


\* ------------------------------------------------ properties of the pipeline
Returned == pc \in { "returned", "done" }
Terminated == pc \in { "exited", "crashed", "done" }
AllExist == \A k \in 1..Len(file_paths) : file_paths[k] \in disk
Count(x, l) == Cardinality({ k \in 1..Len(l) : l[k] = x })
IsErrorRecord(r) == "error" \in DOMAIN r /\ "file_path" \notin DOMAIN r
Categories == { "images", "documents", "other" }

\* C1: once the paths are validated, process_files returns a package whatever
\* fails for one file or in the collaborator: the run never ends in an
\* uncaught exception, and in the package every file whose extraction did
\* not fail still has its record, at its input position.
C1_PackageAlwaysProduced ==
    /\ pc # "crashed"
    /\ Returned =>
         /\ Len(final_package.file_metadata) = Len(file_paths)
         /\ \A k \in 1..Len(file_paths) :
               \/ IsErrorRecord(final_package.file_metadata[k])
               \/ final_package.file_metadata[k].file_path = file_paths[k]

\* C3 as stated: in the returned package agents_used holds the document label
\* iff the documents category is non-empty, and the image label iff the
\* images category is non-empty.
C3_LabelsIffCategory ==
    Returned =>
      /\ InList(DocAgentLabel, final_package.agents_used)
           <=> categorized_files.documents # << >>
      /\ InList(ImageAgentLabel, final_package.agents_used)
           <=> categorized_files.images # << >>

\* C3 amended: in the returned package agents_used holds the document label
\* iff the documents category or the other category is non-empty (the
\* condition under which the document stage runs), and the image label iff
\* the images category is non-empty.
C3_LabelsIffStageRan ==
    Returned =>
      /\ InList(DocAgentLabel, final_package.agents_used)
           <=> ( categorized_files.documents # << >>
                 \/ categorized_files.other # << >> )
      /\ InList(ImageAgentLabel, final_package.agents_used)
           <=> categorized_files.images # << >>

\* a package of files that are all `other` carries the document label
C3_Witness ==
    /\ Returned
    /\ categorized_files.documents = << >>
    /\ categorized_files.images = << >>
    /\ categorized_files.other # << >>
    /\ final_package.agents_used = << DocAgentLabel >>

\* C4: in every returned package file_metadata holds one record per input
\* path, in input order (so its length is total_files), and each category
\* count equals the number of records whose path is in that category.
C4_CountsMatchRecords ==
    Returned =>
      LET md == final_package.file_metadata
      IN  /\ Len(md) = final_package.total_files
          /\ Len(md) = Len(file_paths)
          /\ \A k \in 1..Len(md) :
                "file_path" \in DOMAIN md[k] /\ md[k].file_path = file_paths[k]
          /\ \A c \in Categories :
                final_package.file_categories[c] =
                  Cardinality({ k \in 1..Len(md) :
                      /\ "file_path" \in DOMAIN md[k]
                      /\ InList(md[k].file_path, final_package.categorized_files[c]) })

\* C6: kickoff is called at most once per run; when it raises, the run goes
\* on, document_results is the placeholder, and the package is returned with
\* the placeholder as document_processing_results and status COMPLETED.
C6_CollaboratorOnceAndAbsorbed ==
    /\ Count("kickoff", effects) <= 1
    /\ InList("kickoff raised", effects) =>
         /\ pc \in { "images", "compile", "returned", "done" }
         /\ document_results = PyStr(DocPlaceholder)
         /\ pc # "done" => ENABLED Next
         /\ Returned =>
              /\ final_package.document_processing_results = DocPlaceholder
              /\ final_package.package_status = "COMPLETED"

\* a batch of two files whose single kickoff raised, and whose package is out
C6_Witness ==
    /\ pc = "done"
    /\ Len(file_paths) = 2
    /\ InList("kickoff raised", effects)
    /\ saved.result.package_status = "COMPLETED"

\* C7: with a missing path main exits with code 1 before any categorization,
\* extraction, collaborator call or write; with every path present
\* process_files runs and its result is passed to save_results.
C7_ValidateThenProcess ==
    Terminated =>
      IF AllExist
      THEN /\ pc = "done"
           /\ InList("categorize_files_by_type", effects)
           /\ saved.result = final_package
      ELSE /\ exit_code = 1
           /\ effects = << >>
           /\ final_package = PyNone
           /\ saved = PyNone


\* ------------------------------------------- single calls of the functions
\* The pipeline at rest, while one function is called on inputs of its own.
MainIdle ==
    /\ pc = "idle"
    /\ file_paths = << >>
    /\ categorized_files = PyNone
    /\ collected_docs = << >>
    /\ pos = 0
    /\ doc_input = PyNone
    /\ document_results = PyNone
    /\ vision_results = PyNone
    /\ final_package = PyNone
    /\ exit_code = -1
    /\ saved = PyNone
    /\ effects = << >>

mainVars == << pc, file_paths, disk, categorized_files, collected_docs, pos,
               doc_input, document_results, vision_results, final_package,
               exit_code, saved, effects >>

\* --- categorize_files_by_type on any list of paths, existing or not
P_pdf_lower == << "s", ".", "p", "d", "f" >>
P_hidden    == << ".", "p", "d", "f" >>
P_dotted_dir == << "d", ".", "p", "n", "g", "/", "f" >>
P_jpeg      == << "p", ".", "J", "p", "e", "G" >>
P_noext     == << "q" >>

CatPaths == MainPaths \cup { P_pdf_lower, P_hidden, P_dotted_dir, P_jpeg, P_noext }

InitCategorize ==
    /\ MainIdle
    /\ disk \in { {}, CatPaths }
    /\ \E paths \in UNION { [ 1..n -> CatPaths ] : n \in 0..MaxFiles } :
          em = [ phase |-> "call", paths |-> paths ]

CallCategorize ==
    /\ em.phase = "call"
    /\ em' = [ phase |-> "returned", paths |-> em.paths,
               result |-> categorize_files_by_type(em.paths) ]
    /\ UNCHANGED mainVars

SpecCategorize == InitCategorize /\ [][CallCategorize]_vars

\* --- extract_metadata on a PDF path
PdfPaths == { P_pdf, << "d", "/", "s", ".", "p", "d", "f" >> }

TextAlphabet == { "a", " " }
Texts == UNION { [ 1..n -> TextAlphabet ] : n \in 0..MaxTextLen }
Pages == [ text : Texts, images : 0..MaxImages ]
PdfDocs == UNION { [ 1..n -> Pages ] : n \in 0..MaxPages }

InitExtract ==
    /\ MainIdle
    /\ disk = PdfPaths
    /\ \E file_path \in PdfPaths : \E doc \in PdfDocs :
          em = [ phase |-> "call", file_path |-> file_path, doc |-> doc ]

CallExtract ==
    /\ em.phase = "call"
    /\ \E o \in Outcomes(em.file_path, em.doc) :
          em' = [ phase |-> "returned", file_path |-> em.file_path, doc |-> em.doc,
                  o |-> o,
                  result |-> extract_metadata(em.file_path, em.doc, o),
                  calls |-> ExtractCalls(em.file_path, o) ]
    /\ UNCHANGED mainVars

SpecExtract == InitExtract /\ [][CallExtract]_vars

\* --- the three places that cut a text to an excerpt
ProbeAlphabet == << "a", " ", "b" >>
ProbeText(n, seed) == [ k \in 1..n |-> ProbeAlphabet[((k * seed) % 3) + 1] ]
ProbeLengths ==
    (0..ProbeSpan) \cup { n \in 0..(ExcerptLimit + ProbeSpan) : n >= ExcerptLimit - ProbeSpan - 1 }
ProbeTexts == { ProbeText(n, seed) : n \in ProbeLengths, seed \in 1..3 }

InitExcerpt ==
    /\ MainIdle
    /\ disk = { P_pdf, P_txt }
    /\ \E site \in { "primary", "fallback", "plain" } : \E text \in ProbeTexts :
          em = [ phase |-> "call", site |-> site, text |-> text ]

\* the primary backend on a one-page PDF holding the text
ExcerptPrimary ==
    /\ em.phase = "call" /\ em.site = "primary"
    /\ LET doc == << [ text |-> em.text, images |-> 0 ] >>
       IN  em' = [ phase |-> "returned", site |-> em.site, text |-> em.text,
                   full_text |-> PrimaryLoop(doc, 1).full_text,
                   text_content |-> PrimaryAnalysis(doc).pdf_analysis.text_content ]
    /\ UNCHANGED mainVars

\* the fallback backend on the same PDF
ExcerptFallback ==
    /\ em.phase = "call" /\ em.site = "fallback"
    /\ LET doc == << [ text |-> em.text, images |-> 0 ] >>
           pageOk == [ k \in 1..1 |-> TRUE ]
       IN  em' = [ phase |-> "returned", site |-> em.site, text |-> em.text,
                   full_text |-> FallbackLoop(doc, pageOk, 1),
                   text_content |-> FallbackAnalysis(doc, pageOk).pdf_analysis.text_content ]
    /\ UNCHANGED mainVars

\* process_files reading a plain document whose content is the text
ExcerptPlain ==
    /\ em.phase = "call" /\ em.site = "plain"
    /\ LET doc == extract_metadata(P_txt, << >>,
                      [ attrs |-> "ok", primary |-> "ok", fallback |-> "ok",
                        pageOk |-> << >>, e |-> "", e2 |-> "" ])
       IN  em' = [ phase |-> "returned", site |-> em.site, text |-> em.text,
                   full_text |-> em.text,
                   text_content |-> DocContent(doc, em.text, TRUE, "").text_content ]
    /\ UNCHANGED mainVars

NextExcerpt == ExcerptPrimary \/ ExcerptFallback \/ ExcerptPlain

SpecExcerpt == InitExcerpt /\ [][NextExcerpt]_vars


\* --------------------------------------- properties of the single calls
EmReturned == em.phase = "returned"
BaseFields == { "file_name", "file_path", "file_size", "file_extension",
                "created_date", "modified_date", "file_type" }

\* the base metadata of record r is that of file_path
BasePopulated(r, file_path) ==
    /\ BaseFields \subseteq DOMAIN r
    /\ r.file_name = Basename(file_path) /\ r.file_name # << >>
    /\ r.file_path = file_path
    /\ r.file_size = DiskStat(file_path).st_size
    /\ Lower(r.file_extension) = << ".", "p", "d", "f" >>
    /\ r.created_date = IsoFormat(DiskStat(file_path).st_ctime)
    /\ r.modified_date = IsoFormat(DiskStat(file_path).st_mtime)
    /\ r.file_type = "PDF Document"

\* the pdf_analysis of record r carries the tag the outcome o calls for
MethodMatchesOutcome(r, o) ==
    /\ "pdf_analysis" \in DOMAIN r
    /\ LET pa == r.pdf_analysis
       IN  /\ pa.extraction_method = "PyMuPDF" <=> o.primary = "ok"
           /\ pa.extraction_method = "PyPDF2_fallback"
                <=> (o.primary = "raise" /\ o.fallback = "ok")
           /\ pa.extraction_method = "failed"
                <=> (o.primary = "raise" /\ o.fallback = "raise")
           /\ pa.extraction_method = "failed"
                <=> ( /\ "error" \in DOMAIN pa
                      /\ \E k \in 1..Len(pa.error) : pa.error[k] # "" )

\* the fallback runs only after the primary, and only when the primary raised
FallbackOnlyAfterPrimaryRaised(calls, o) ==
    InList("fallback", calls) =>
        calls = << "primary", "fallback" >> /\ o.primary = "raise"

\* C2 as stated: for every PDF path and every outcome of the two backends
\* extract_metadata does not raise and returns the base fields plus a
\* pdf_analysis tagged by the outcome; the fallback runs only after the
\* primary raised.
C2_RecordForEveryPdfPath ==
    EmReturned =>
      /\ ~IsRaise(em.result)
      /\ BasePopulated(em.result, em.file_path)
      /\ MethodMatchesOutcome(em.result, em.o)
      /\ FallbackOnlyAfterPrimaryRaised(em.calls, em.o)

\* C2 amended: extract_metadata never raises, and for every PDF path whose
\* filesystem attributes are read without error (so that the backends are
\* reached) and every outcome of the two backends it returns the base fields
\* plus a pdf_analysis tagged by the outcome; the fallback runs only after
\* the primary raised.
C2_RecordWhenAttributesRead ==
    EmReturned =>
      /\ ~IsRaise(em.result)
      /\ FallbackOnlyAfterPrimaryRaised(em.calls, em.o)
      /\ em.o.attrs = "ok" =>
           /\ BasePopulated(em.result, em.file_path)
           /\ MethodMatchesOutcome(em.result, em.o)

\* both backends raised, with empty exception texts, on a two-page PDF
C2_Witness ==
    /\ EmReturned
    /\ Len(em.doc) = 2
    /\ em.o.attrs = "ok" /\ em.o.primary = "raise" /\ em.o.fallback = "raise"
    /\ em.o.e = "" /\ em.o.e2 = ""
    /\ em.calls = << "primary", "fallback" >>
    /\ em.result.pdf_analysis.extraction_method = "failed"
    /\ em.result.file_path = em.file_path

\* the input restricted to the members of one category list, in input order
Restrict(paths, members) == SelectSeq(paths, LAMBDA f : InList(f, members))

\* C5: categorize_files_by_type puts every occurrence of an input path in
\* exactly one list, chosen by its lower-cased extension alone; the lengths
\* add up to the input's; each list keeps the input order; nothing depends
\* on the path existing.
C5_Partition ==
    EmReturned =>
      LET cats  == em.result
          paths == em.paths
      IN  /\ DOMAIN cats = Categories
          /\ Len(cats.images) + Len(cats.documents) + Len(cats.other) = Len(paths)
          /\ \A c \in Categories : cats[c] = Restrict(paths, cats[c])
          /\ \A c, d \in Categories :
                c # d => \A k \in 1..Len(cats[c]) : ~InList(cats[c][k], cats[d])
          /\ \A k \in 1..Len(paths) :
                LET ext == Lower(SplitExt(paths[k]))
                IN  /\ InList(paths[k], cats.images) <=> InList(ext, image_extensions)
                    /\ InList(paths[k], cats.documents)
                         <=> InList(ext, document_extensions)

\* two paths that do not exist, one with an upper-case image extension
C5_Witness ==
    /\ EmReturned
    /\ disk = {}
    /\ "result" \in DOMAIN em /\ "paths" \in DOMAIN em
    /\ em.paths = << P_noext, P_jpeg >>
    /\ em.result.images = << P_jpeg >>
    /\ em.result.other = << P_noext >>

PrimarySucceeded ==
    /\ EmReturned
    /\ em.o.attrs = "ok"
    /\ em.o.primary = "ok"

RECURSIVE SumTextLen(_, _)
SumTextLen(doc, k) == IF k = 0 THEN 0 ELSE SumTextLen(doc, k - 1) + Len(doc[k].text)

\* "\n".join of the page texts: one separator between consecutive pages
RECURSIVE JoinedText(_, _)
JoinedText(doc, k) ==
    IF k = 0 THEN << >>
    ELSE IF k = 1 THEN doc[1].text
    ELSE JoinedText(doc, k - 1) \o << "\n" >> \o doc[k].text

\* C8 as stated: after a successful primary run character_count is the
\* length of the page texts joined with one newline between consecutive
\* pages.
C8_CountOfJoinedText ==
    PrimarySucceeded =>
      em.result.pdf_analysis.character_count = Len(JoinedText(em.doc, Len(em.doc)))

\* C8 amended: after a successful primary run character_count is the length
\* of the page texts in page order each followed by a newline: the sum of
\* the page text lengths plus one per page.
C8_CountOfTerminatedText ==
    PrimarySucceeded =>
      em.result.pdf_analysis.character_count
        = SumTextLen(em.doc, Len(em.doc)) + Len(em.doc)

\* a two-page PDF with text on both pages, read by the primary backend
C8_Witness ==
    /\ PrimarySucceeded
    /\ Len(em.doc) = 2
    /\ em.doc[1].text # << >> /\ em.doc[2].text # << >>
    /\ em.result.pdf_analysis.character_count = 4

RECURSIVE SumImageCount(_, _)
SumImageCount(pd, k) == IF k = 0 THEN 0 ELSE SumImageCount(pd, k - 1) + pd[k].image_count

\* C10: after a successful primary run page_details has total_pages entries
\* numbered 1..total_pages in page order, has_text holds iff some page has
\* non-whitespace text (iff some entry has has_text), and has_images holds
\* iff total_images, the sum of the image_count values, is positive.
C10_PageDetails ==
    PrimarySucceeded =>
      LET pa == em.result.pdf_analysis
          pd == pa.page_details
      IN  /\ Len(pd) = pa.total_pages
          /\ pa.total_pages = Len(em.doc)
          /\ \A k \in 1..Len(pd) :
                /\ pd[k].page_number = k
                /\ pd[k].text_length = Len(em.doc[k].text)
                /\ pd[k].image_count = em.doc[k].images
                /\ pd[k].has_text
                     <=> \E j \in 1..Len(em.doc[k].text) :
                            em.doc[k].text[j] \notin Whitespace
          /\ pa.has_text <=> \E k \in 1..Len(pd) : pd[k].has_text
          /\ pa.total_images = SumImageCount(pd, Len(pd))
          /\ pa.has_images <=> pa.total_images > 0

\* a whitespace-only page and a page with an image: no text, but images
C10_Witness ==
    /\ PrimarySucceeded
    /\ Len(em.doc) = 2
    /\ em.doc[1].text = << " " >>
    /\ em.doc[2].images = 1
    /\ ~em.result.pdf_analysis.has_text
    /\ em.result.pdf_analysis.has_images

\* C9: at each of the three places the excerpt of a text of at most 2000
\* characters is the text itself, and of a longer text its first 2000
\* characters followed by the three-character marker "...".
C9_Excerpt ==
    ( EmReturned /\ "text_content" \in DOMAIN em ) =>
      LET t  == em.full_text
          tc == em.text_content
      IN  /\ em.site = "plain" => t = em.text
          /\ em.site # "plain" => t = em.text \o << "\n" >>
          /\ Len(t) <= 2000 => tc = t
          /\ Len(t) > 2000 =>
               /\ Len(tc) = 2000 + 3
               /\ SubSeq(tc, 1, 2000) = SubSeq(t, 1, 2000)
               /\ SubSeq(tc, 2001, 2003) = << ".", ".", "." >>

\* a text of 2001 characters cut by the fallback backend
C9_Witness ==
    /\ EmReturned
    /\ em.site = "fallback"
    /\ Len(em.full_text) = 2001
    /\ Len(em.text_content) = 2003

=============================================================================
